---- MODULE Spec2Model ----
(***************************************************************************)
(* Model of backend/autoscaler/autoscaler.py: the lag-driven Docker        *)
(* autoscaler (class DockerAutoscaler and its control loop run()).         *)
(*                                                                         *)
(* Container names are modelled by numbers:                                *)
(*   0    "shorts-autoscaler"        (the autoscaler's own container)      *)
(*   1    TARGET_SERVICE             ("shorts-renderer", the primary)      *)
(*   k>=2 f"{TARGET_SERVICE}_{k}"    (the replicas scale_service launches) *)
(* Time is in seconds, as returned by time.time().                         *)
(***************************************************************************)
EXTENDS Integers, Sequences, FiniteSets, TLC

\* the environment's AUTO_UPGRADE, read once at import (line 28)
VARIABLE auto_upgrade

(* ---- configuration (module-level constants of autoscaler.py) ---------- *)
MIN_REPLICAS == 1
MAX_REPLICAS == 5
SCALE_UP_THRESHOLD == 5
SCALE_DOWN_THRESHOLD == 2
CHECK_INTERVAL == 30
COOLDOWN_PERIOD == 60
AUTO_UPGRADE == auto_upgrade
PULL_INTERVAL == 300
MONITORED_TOPICS == <<"script-created", "assets-ready">>

(* ---- bounds of the model ---------------------------------------------- *)
\* highest replica suffix a container name may carry
MaxIdx == 7
\* the clock starts at StartTime (time.time() is far from the epoch) ...
StartTime == 600
\* ... and ticks are explored while the clock is below StartTime + Horizon
Horizon == 60
\* number of disturbances in one run: changes made to the fleet by actors
\* other than the autoscaler, and container-runtime calls that raise
MaxDisturb == 1
\* a partition's log-end offset is one of 0, OffsetStep, .., MaxOffset * OffsetStep
MaxOffset == 2
OffsetStep == 3
\* inputs of the scaling policy when it is checked as a pure function
MaxLag == 21
MaxCurrent == 7

Max(a, b) == IF a >= b THEN a ELSE b
Min(a, b) == IF a <= b THEN a ELSE b

(* ---- container names --------------------------------------------------- *)
AUTOSCALER == 0
TARGET_SERVICE == 1
Names == 0 .. MaxIdx

\* f"{TARGET_SERVICE}_{idx}"
ReplicaName(idx) == idx

\* TARGET_SERVICE in c.name
ContainsTarget(n) == n >= 1

\* 'autoscaler' in c.name
ContainsAutoscaler(n) == n = AUTOSCALER

RECURSIVE Digits(_)
Digits(n) == IF n < 10 THEN <<n>> ELSE Append(Digits(n \div 10), n % 10)

\* s < t for two digit strings, as Python compares str
StrLess(s, t) ==
    \E i \in 1 .. (Len(t)) :
        /\ \A j \in 1 .. (i - 1) : j <= Len(s) /\ s[j] = t[j]
        /\ (i > Len(s) \/ s[i] < t[i])

\* a.name < b.name
NameLess(a, b) ==
    IF a < 2 \/ b < 2 THEN a < b ELSE StrLess(Digits(a), Digits(b))

\* sorted(S, key=name, reverse=True): the name at position i is the one that
\* i - 1 names of S follow in the order of names
SortReverse(S) ==
    [i \in 1 .. Cardinality(S) |->
        CHOOSE x \in S : Cardinality({y \in S : NameLess(x, y)}) = i - 1]

(* ---- the container runtime -------------------------------------------- *)
Status == {"absent", "running", "restarting", "created", "exited"}
Absent == [status |-> "absent", image |-> 0, env |-> <<>>]
Container(s, img, env) == [status |-> s, image |-> img, env |-> env]

(* ---- container environments --------------------------------------------- *)
\* An entry of attrs['Config']['Env'] is a string "KEY=value", modelled as the
\* sequence of its characters; the runtime stores one entry per key, each
\* with its '='.

\* '=' in e
HasEq(e) == \E i \in 1 .. Len(e) : e[i] = "="

\* position of the first '=' of e
FirstEq(e) == CHOOSE i \in 1 .. Len(e) : e[i] = "=" /\ \A j \in 1 .. (i - 1) : e[j] # "="

\* (mutant) k, v taken as the first two pieces of e.split('=')
SplitAtEvery(e) ==
    LET rest == SubSeq(e, FirstEq(e) + 1, Len(e))
    IN  <<SubSeq(e, 1, FirstEq(e) - 1),
          IF HasEq(rest) THEN SubSeq(rest, 1, FirstEq(rest) - 1) ELSE rest>>

\* k, v = e.split('=', 1)
SplitOnce(e) == <<SubSeq(e, 1, FirstEq(e) - 1), SubSeq(e, FirstEq(e) + 1, Len(e))>>

\* env_dict[k] = v on a dict kept as the sequence of its items <<k, v>>
DictSet(d, k, v) ==
    IF \E i \in 1 .. Len(d) : d[i][1] = k
    THEN [d EXCEPT ![CHOOSE i \in 1 .. Len(d) : d[i][1] = k] = <<k, v>>]
    ELSE Append(d, <<k, v>>)

\* lines 156-160 (and 219-221): the dict built from the first n entries of env
RECURSIVE env_dict(_, _)
env_dict(env, n) ==
    IF n = 0 THEN <<>>
    ELSE IF HasEq(env[n])
    THEN DictSet(env_dict(env, n - 1), SplitOnce(env[n])[1], SplitOnce(env[n])[2])
    ELSE env_dict(env, n - 1)

\* containers.run(environment=env_dict): the entries "k=v" of the first n items
RECURSIVE EnvOf(_, _)
EnvOf(d, n) ==
    IF n = 0 THEN <<>> ELSE Append(EnvOf(d, n - 1), d[n][1] \o <<"=">> \o d[n][2])

\* the environment of a container run with the environment read from env
ClonedEnv(env) == EnvOf(env_dict(env, Len(env)), Len(env_dict(env, Len(env))))

\* the environment the deployment gives its workers
ComposeEnv == << <<"K", "=", "v">> >>

\* names of the containers docker_client.containers.list(...) returns
ListRunning(fl) == {n \in Names : fl[n].status = "running"}
ListAll(fl) == {n \in Names : fl[n].status # "absent"}

\* _get_current_replicas, the path on which no runtime call raises
CountActive(fl) ==
    Cardinality({n \in Names :
        /\ fl[n].status \in {"running", "restarting", "created"}
        /\ ContainsTarget(n) /\ ~ContainsAutoscaler(n)})

\* (mutant) an inspection that counts the running containers only
get_current_replicas_running_only(fl, fails) ==
    IF fails THEN 1
    ELSE Cardinality({n \in Names : fl[n].status = "running" /\ ContainsTarget(n)})

\* (mutant) an inspection that reports an empty fleet when the runtime raises
get_current_replicas_floor_zero(fl, fails) ==
    IF fails THEN 0 ELSE CountActive(fl)

\* _get_current_replicas: the count, or 1 when a runtime call raises
InspectionFloor == 1
get_current_replicas(fl, fails) ==
    IF fails THEN InspectionFloor ELSE CountActive(fl)

(* ---- calculate_desired_replicas ---------------------------------------- *)
\* (mutant) the steep threshold taken three times the scale-up threshold
SteepLagTriple == SCALE_UP_THRESHOLD * 3

\* the lag above which the policy steps up by two
SteepLag == SCALE_UP_THRESHOLD * 2

\* line 277: if lag > SCALE_UP_THRESHOLD * 2
IsSteep(l) == l > SteepLag

\* (mutant) the double step without its upper clamp
StepUpTwoUnclamped(cur) == cur + 2

\* line 278
StepUpTwo(cur) == Min(MAX_REPLICAS, cur + 2)

\* (mutant) the scale-up threshold taken inclusively
IsHighInclusive(l) == l >= SCALE_UP_THRESHOLD

\* line 279: elif lag > SCALE_UP_THRESHOLD
IsHigh(l) == l > SCALE_UP_THRESHOLD

\* (mutant) the scale-up step that adds nothing
StepUpNone(cur) == Min(MAX_REPLICAS, cur)

\* line 280
StepUpOne(cur) == Min(MAX_REPLICAS, cur + 1)

\* line 281: elif lag < SCALE_DOWN_THRESHOLD and self.current_replicas > MIN_REPLICAS
IsLow(l, cur) == l < SCALE_DOWN_THRESHOLD /\ cur > MIN_REPLICAS

\* (mutant) the scale-down step taken two replicas at a time
StepDownTwo(cur) == Max(MIN_REPLICAS, cur - 2)

\* (mutant) the scale-down step with the wrong sign
StepDownSignSlip(cur) == Max(MIN_REPLICAS, cur + 1)

\* line 282
StepDown(cur) == Max(MIN_REPLICAS, cur - 1)

calculate_desired_replicas(l, cur) ==
    IF IsSteep(l) THEN StepUpTwo(cur)
    ELSE IF IsHigh(l) THEN StepUpOne(cur)
    ELSE IF IsLow(l, cur) THEN StepDown(cur)
    ELSE cur

(* ---- get_consumer_lag -------------------------------------------------- *)
\* consumer.committed(tp) is None
None == -1

\* (mutant) the difference of the offsets, not floored at 0
PartitionLagUnclamped(p) ==
    p.end - (IF p.committed = None THEN 0 ELSE p.committed)

\* lag = max(0, end_offset - committed), committed None taken as 0
PartitionLag(p) ==
    Max(0, p.end - (IF p.committed = None THEN 0 ELSE p.committed))

RECURSIVE SumLag(_, _)
SumLag(parts, n) ==
    IF n = 0 THEN 0 ELSE SumLag(parts, n - 1) + PartitionLag(parts[n])

\* (mutant) a topic on which a call raises adds nothing
TopicLagAllOrNothing(t) ==
    IF t.failAt = 0 \/ t.failAt > Len(t.parts) + 1 THEN SumLag(t.parts, Len(t.parts))
    ELSE 0

\* What one topic adds to total_lag. t.failAt = 0: no broker call raises;
\* 1: partitions_for_topic raises; k + 1: an offset read of partition k raises
\* (the partitions before k were already added, the rest of the topic is
\* skipped by the inner except).
TopicLag(t) ==
    IF t.failAt = 0 \/ t.failAt > Len(t.parts) + 1 THEN SumLag(t.parts, Len(t.parts))
    ELSE IF t.failAt = 1 THEN 0
    ELSE SumLag(t.parts, t.failAt - 2)

RECURSIVE SumTopics(_, _)
SumTopics(topics, n) ==
    IF n = 0 THEN 0 ELSE SumTopics(topics, n - 1) + TopicLag(topics[n])

\* b.connect: KafkaConsumer(...) succeeds; b.close: consumer.close() succeeds
get_consumer_lag(b) ==
    IF ~b.connect THEN 0
    ELSE IF ~b.close THEN 0
    ELSE SumTopics(b.topics, Len(b.topics))

(* ---- scale_service ----------------------------------------------------- *)
\* (mutant) the early exit dropped
SameAsCachedDropped(desired, cur) == FALSE

\* line 186: if desired_replicas == self.current_replicas: return
SameAsCached(desired, cur) == desired = cur

\* (mutant) the cooldown measured against the tick interval
InCooldownOfOneTick(t, lst) == t - lst < CHECK_INTERVAL

\* line 190: if time.time() - self.last_scale_time < COOLDOWN_PERIOD: return
InCooldown(t, lst) == t - lst < COOLDOWN_PERIOD

\* (mutant) the stale count kept after the re-check
RecheckKeepsStale(cached, fresh) == cached

\* lines 194-197: the value of self.current_replicas after the re-check
Recheck(cached, fresh) == IF fresh # cached THEN fresh ELSE cached

\* (mutant) the lower bound of the clamp dropped
ClampUpperOnly(desired) == Min(MAX_REPLICAS, desired)

\* line 202
Clamp(desired) == Max(MIN_REPLICAS, Min(MAX_REPLICAS, desired))

\* line 211
containers_to_add(desired, cur) == desired - cur

\* (mutant) the scan for a free suffix started at 1
NextIdxFromOne(existing_names) ==
    CHOOSE idx \in 1 .. (MaxIdx + 1) :
        /\ ReplicaName(idx) \notin existing_names
        /\ \A j \in 1 .. (idx - 1) : ReplicaName(j) \in existing_names

\* lines 228-230: idx = 2; while f"{TARGET_SERVICE}_{idx}" in existing_names
NextIdx(existing_names) ==
    CHOOSE idx \in 2 .. (MaxIdx + 1) :
        /\ ReplicaName(idx) \notin existing_names
        /\ \A j \in 2 .. (idx - 1) : ReplicaName(j) \in existing_names

\* lines 258-260
is_main(n) == n = TARGET_SERVICE

\* line 262: if len(containers) > 1 and is_main: continue
SkipMain(containers, n) == Len(containers) > 1 /\ is_main(n)

\* line 255: containers[:(self.current_replicas - desired_replicas)]
containers_to_stop(containers, cur, desired) ==
    SubSeq(containers, 1, Min(Len(containers), cur - desired))

\* one mutating runtime call, as issued: the cached count, the count an
\* inspection of the fleet reports at the moment of the call, how many of
\* the counted containers are other ones than the call's, and the names that
\* containers in any state hold at that moment
Mutation(o, n, cur, fl, succeeds) ==
    [op |-> o, name |-> n, cached |-> cur, actual |-> CountActive(fl),
     others |-> CountActive([fl EXCEPT ![n] = Absent]),
     taken |-> {x \in Names : fl[x].status # "absent"}, ok |-> succeeds]

\* lines 214-223: the environment of the first target-service container that
\* containers.list() returns, as a dict and back; empty when there is none
TemplateEnv(fl) ==
    LET existing == SortReverse({c \in ListRunning(fl) : ContainsTarget(c)})
    IN  IF existing = <<>> THEN <<>> ELSE ClonedEnv(fl[existing[1]].env)

\* lines 225-246: the launch loop; st.calls counts the runtime calls of this
\* scale_service call, the call numbered failAt raises (a containers.run that
\* raises leaves no container behind); st.fits: the name is one of Names
RECURSIVE LaunchLoop(_, _, _, _, _, _)
LaunchLoop(st, todo, cur, img, env, failAt) ==
    IF todo = 0 \/ st.err THEN st
    ELSE LET c1 == st.calls + 1
             c2 == st.calls + 2
             idx == NextIdx(ListAll(st.fleet))
             m == Mutation("run", ReplicaName(idx), cur, st.fleet, c2 # failAt)
         IN  IF c1 = failAt THEN [st EXCEPT !.calls = c1, !.err = TRUE]
             ELSE IF idx > MaxIdx THEN [st EXCEPT !.fits = FALSE, !.err = TRUE]
             ELSE IF c2 = failAt
             THEN [st EXCEPT !.calls = c2, !.err = TRUE, !.muts = Append(@, m)]
             ELSE LaunchLoop(
                    [st EXCEPT !.calls = c2, !.muts = Append(@, m),
                               !.fleet = [@ EXCEPT ![idx] = Container("running", img, env)]],
                    todo - 1, cur, img, env, failAt)

\* lines 256-267: the removal loop over containers_to_stop
RECURSIVE StopLoop(_, _, _, _, _)
StopLoop(st, todo, containers, cur, failAt) ==
    IF todo = <<>> \/ st.err THEN st
    ELSE LET c == Head(todo)
             c1 == st.calls + 1
             c2 == st.calls + 2
             m1 == Mutation("stop", c, cur, st.fleet, c1 # failAt)
             stopped == [st.fleet EXCEPT ![c].status = "exited"]
             m2 == Mutation("remove", c, cur, stopped, c2 # failAt)
         IN  IF SkipMain(containers, c)
             THEN StopLoop(st, Tail(todo), containers, cur, failAt)
             ELSE IF c1 = failAt
             THEN [st EXCEPT !.calls = c1, !.err = TRUE, !.muts = Append(@, m1)]
             ELSE IF c2 = failAt
             THEN [st EXCEPT !.calls = c2, !.err = TRUE, !.fleet = stopped,
                             !.muts = @ \o <<m1, m2>>]
             ELSE StopLoop(
                    [st EXCEPT !.calls = c2, !.muts = @ \o <<m1, m2>>,
                               !.fleet = [stopped EXCEPT ![c] = Absent]],
                    Tail(todo), containers, cur, failAt)

\* the log of a scale_service call that returns before the scale action:
\* the argument, self.current_replicas and self.last_scale_time on entry, the
\* re-check's count (floor: the inspection raised and the count is the floor),
\* the clamped target, the number of containers to add or remove, the
\* containers the removal loop is to stop, the mutating runtime calls issued
NoAction(why, desired, cached, lst, fresh, target, raised) ==
    [exit |-> why, desired |-> desired, cached |-> cached, lst |-> lst, fresh |-> fresh,
     floor |-> raised, target |-> target, planned |-> 0, victims |-> {},
     muts |-> <<>>]

\* (mutant) the cooldown timestamp is taken whether or not the action raised
ScaleTimeAlways(err, lst, t) == t

\* lines 249 and 270: self.last_scale_time = time.time() is the last statement
\* of the try block, so a raise (line 273) leaves the timestamp alone
ScaleTimeAfter(err, lst, t) == IF err THEN lst ELSE t

\* scale_service(desired) called at time t on fleet fl with
\* self.current_replicas = cur and self.last_scale_time = lst; img is the image
\* IMAGE_NAME resolves to; runtime call number failAt of this call raises
\* (call 1 is the re-check's inspection), 0: none does.
scale_service(fl, cur, lst, t, desired, img, failAt) ==
    LET same == [fleet |-> fl, current_replicas |-> cur, last_scale_time |-> lst,
                 fits |-> TRUE, failed |-> FALSE]
        fresh_count == get_current_replicas(fl, failAt = 1)
        cur2 == Recheck(cur, fresh_count)
        target == Clamp(desired)
        st0 == [fleet |-> fl, calls |-> 1, muts |-> <<>>, err |-> FALSE, fits |-> TRUE]
        checked == [same EXCEPT !.current_replicas = cur2, !.failed = (failAt = 1)]
    IN  IF SameAsCached(desired, cur)
        THEN same @@ [log |-> NoAction("same", desired, cur, lst, None, None, FALSE)]
        ELSE IF InCooldown(t, lst)
        THEN same @@ [log |-> NoAction("cooldown", desired, cur, lst, None, None, FALSE)]
        ELSE IF fresh_count # cur /\ desired = cur2
        THEN checked @@ [log |-> NoAction("recheck", desired, cur, lst, fresh_count,
                                          None, failAt = 1)]
        ELSE IF target = cur2
        THEN checked @@ [log |-> NoAction("clamp", desired, cur, lst, fresh_count,
                                          target, failAt = 1)]
        ELSE IF target > cur2
        THEN LET n == containers_to_add(target, cur2)
                 \* line 214: containers.list() is runtime call 2
                 st == IF failAt = 2 THEN [st0 EXCEPT !.calls = 2, !.err = TRUE]
                       ELSE LaunchLoop([st0 EXCEPT !.calls = 2], n, cur2, img,
                                       TemplateEnv(fl), failAt)
             IN  [fleet |-> st.fleet,
                  current_replicas |-> IF st.err THEN cur2 ELSE target,
                  last_scale_time |-> ScaleTimeAfter(st.err, lst, t),
                  fits |-> st.fits,
                  failed |-> (failAt = 1) \/ (st.err /\ st.fits),
                  log |-> [exit |-> IF st.err THEN "error" ELSE "up",
                           desired |-> desired, cached |-> cur, lst |-> lst,
                           fresh |-> fresh_count, floor |-> (failAt = 1),
                           target |-> target, planned |-> n, victims |-> {},
                           muts |-> st.muts]]
        ELSE LET \* line 252: containers.list() is runtime call 2
                 containers == SortReverse({c \in ListRunning(fl) : ContainsTarget(c)})
                 todo == containers_to_stop(containers, cur2, target)
                 st == IF failAt = 2 THEN [st0 EXCEPT !.calls = 2, !.err = TRUE]
                       ELSE StopLoop([st0 EXCEPT !.calls = 2], todo, containers, cur2, failAt)
             IN  [fleet |-> st.fleet,
                  current_replicas |-> IF st.err THEN cur2 ELSE target,
                  last_scale_time |-> ScaleTimeAfter(st.err, lst, t),
                  fits |-> TRUE,
                  failed |-> (failAt = 1) \/ st.err,
                  log |-> [exit |-> IF st.err THEN "error" ELSE "down",
                           desired |-> desired, cached |-> cur, lst |-> lst,
                           fresh |-> fresh_count, floor |-> (failAt = 1),
                           target |-> target, planned |-> cur2 - target,
                           victims |-> {todo[i] : i \in {k \in 1 .. Len(todo) :
                                                           ~SkipMain(containers, todo[k])}},
                           muts |-> st.muts]]

(* ---- refresh_image / _recreate_container ------------------------------- *)
\* (mutant) the pull interval is not kept
PullAnyTime(t, lpt) == FALSE

\* line 127: if time.time() - self.last_pull_time < 300: return
PullTooSoon(t, lpt) == t - lpt < PULL_INTERVAL

\* line 144: TARGET_SERVICE in c.name and c.name != "shorts-autoscaler"
RefreshCandidate(n) == ContainsTarget(n) /\ n # AUTOSCALER

\* (mutant) a raise inside a recreate ends the loop of refresh_image
AbortRecreates(todo) == <<>>

\* lines 181-182: _recreate_container catches what its calls raise and
\* returns, so the loop of line 143 goes on with the containers after this one
AfterRecreate(todo) == Tail(todo)

\* lines 143-147 with _recreate_container (lines 151-182) inlined: stop, remove
\* and run are three runtime calls; a raise is caught inside
\* _recreate_container, so the loop goes on with the next container.
\* st.tried: the containers _recreate_container was called for, in call
\* order; st.touched: those of them that were stopped
RECURSIVE RecreateLoop(_, _, _, _)
RecreateLoop(st, todo, latest_id, failAt) ==
    IF todo = <<>> THEN st
    ELSE LET c == Head(todo)
             c1 == st.calls + 1
             c2 == st.calls + 2
             c3 == st.calls + 3
             stopped == [st.fleet EXCEPT ![c].status = "exited"]
             removed == [st.fleet EXCEPT ![c] = Absent]
             fresh == [st.fleet EXCEPT ![c] = Container("running", latest_id,
                                                        ClonedEnv(st.fleet[c].env))]
         IN  IF ~RefreshCandidate(c) \/ st.fleet[c].image = latest_id
             THEN RecreateLoop(st, Tail(todo), latest_id, failAt)
             ELSE IF c1 = failAt
             THEN RecreateLoop([st EXCEPT !.calls = c1, !.failed = TRUE,
                                          !.tried = Append(@, c)],
                               AfterRecreate(todo), latest_id, failAt)
             ELSE IF c2 = failAt
             THEN RecreateLoop([st EXCEPT !.calls = c2, !.failed = TRUE, !.fleet = stopped,
                                          !.tried = Append(@, c), !.touched = @ \cup {c}],
                               AfterRecreate(todo), latest_id, failAt)
             ELSE IF c3 = failAt
             THEN RecreateLoop([st EXCEPT !.calls = c3, !.failed = TRUE, !.fleet = removed,
                                          !.tried = Append(@, c), !.touched = @ \cup {c}],
                               AfterRecreate(todo), latest_id, failAt)
             ELSE RecreateLoop([st EXCEPT !.calls = c3, !.fleet = fresh,
                                          !.tried = Append(@, c), !.touched = @ \cup {c}],
                               Tail(todo), latest_id, failAt)

\* refresh_image() called at time t; reg is the image the registry serves for
\* IMAGE_NAME, loc the local one; pullOk: images.pull succeeds; runtime call
\* number failAt raises (images.get is call 1 when the pull failed, then
\* containers.list, then the calls of each recreate), 0: none does.
refresh_image(fl, lpt, t, reg, loc, pullOk, failAt) ==
    LET idle == [fleet |-> fl, last_pull_time |-> lpt, local |-> loc, failed |-> FALSE,
                 attempted |-> FALSE, tried |-> <<>>, touched |-> {}]
        first == IF pullOk THEN 0 ELSE 1
        latest_id == IF pullOk THEN reg ELSE loc
        loc2 == IF pullOk THEN reg ELSE loc
        st0 == [fleet |-> fl, calls |-> first + 1, failed |-> FALSE, tried |-> <<>>,
                touched |-> {}]
        \* containers.list(filters={"status": "running"}), in name order
        containers == SortReverse(ListRunning(fl))
        st == RecreateLoop(st0, containers, latest_id, failAt)
    IN  IF ~AUTO_UPGRADE THEN idle
        ELSE IF PullTooSoon(t, lpt) THEN idle
        ELSE IF ~pullOk /\ failAt = 1
        THEN [idle EXCEPT !.failed = TRUE, !.attempted = TRUE]
        ELSE IF failAt = first + 1
        THEN [idle EXCEPT !.failed = TRUE, !.attempted = TRUE, !.local = loc2,
                          !.last_pull_time = t]
        ELSE [fleet |-> st.fleet, last_pull_time |-> t, local |-> loc2,
              failed |-> st.failed, attempted |-> TRUE, tried |-> st.tried,
              touched |-> st.touched]

(* ---- state -------------------------------------------------------------- *)
VARIABLES
    fleet,              \* the container runtime: name -> [status, image]
    registry,           \* image id the registry serves for IMAGE_NAME
    local,              \* image id IMAGE_NAME resolves to locally
    broker,             \* <<b>>: measurements find the broker as b; <<>>: as any of Brokers
    now,                \* time.time()
    current_replicas,   \* self.current_replicas
    last_scale_time,    \* self.last_scale_time
    last_pull_time,     \* self.last_pull_time
    pc,                 \* the statement of run()'s loop body to execute next
    lag,                \* run(): lag
    desired,            \* run(): desired
    refreshed,          \* log of the refresh_image call of this tick
    pulled_at,          \* time of the latest image pull attempt, or None
    inspected,          \* outcome of this tick's inspection at line 291
    last,               \* log of the latest scale_service call of this tick
    scaled_at,          \* time of the latest successful scale action, or None
    external,           \* fleet changes made by other actors so far
    fails               \* runtime calls that raised so far

vars == <<fleet, registry, local, auto_upgrade, broker, now, current_replicas,
          last_scale_time, last_pull_time, pc, lag, desired, refreshed, pulled_at,
          inspected, last, scaled_at, external, fails>>

Idle == NoAction("none", None, None, None, None, None, FALSE)

\* the fleet holding the autoscaler, the primary and the replicas 2..k
FleetOf(k, img) ==
    [n \in Names |-> IF n = AUTOSCALER \/ (n >= 1 /\ n <= k)
                     THEN Container("running", img, ComposeEnv) ELSE Absent]

\* the broker as one tick may find it: one partition of the first topic and at
\* most one of the second
OffsetOf == {k * OffsetStep : k \in 0 .. MaxOffset}
Brokers ==
    {[connect |-> c, close |-> TRUE,
      topics |-> <<[failAt |-> 0, parts |-> <<[end |-> e1, committed |-> c1]>>],
                   [failAt |-> f2, parts |-> p2]>>] :
        c \in BOOLEAN, e1 \in OffsetOf, c1 \in {None, 0, MaxOffset * OffsetStep}, f2 \in 0 .. 1,
        p2 \in {<<>>} \cup {<<[end |-> e2, committed |-> None]>> : e2 \in OffsetOf}}

\* the log of a tick in which refresh_image has not been called yet
NoRefresh == [called |-> FALSE, attempted |-> FALSE, prev |-> None, failed |-> FALSE,
              tried |-> <<>>, touched |-> {}]

\* nothing has been logged, nothing has disturbed the run
Quiet ==
    /\ refreshed = NoRefresh
    /\ pulled_at = None
    /\ inspected = "none"
    /\ last = Idle
    /\ scaled_at = None
    /\ external = 0
    /\ fails = 0

\* __init__ (lines 35-39), started on a fleet of MIN_REPLICAS to
\* MAX_REPLICAS workers that run the image the registry serves
Init ==
    /\ \E k \in MIN_REPLICAS .. MAX_REPLICAS : fleet = FleetOf(k, 1)
    /\ registry = 1
    /\ local = 1
    /\ auto_upgrade = TRUE
    /\ broker = <<>>
    /\ now = StartTime
    /\ current_replicas = get_current_replicas(fleet, FALSE)
    /\ last_scale_time = 0
    /\ last_pull_time = 0
    /\ pc = "refresh"
    /\ lag = 0
    /\ desired = 0
    /\ Quiet

(* ---- the statements of run()'s loop body -------------------------------- *)
\* the runtime calls one handler can issue
CallIds == 0 .. (2 + 3 * MaxIdx)

\* the calls of a handler that may raise: none once the budget is spent
FailPoints == IF external + fails < MaxDisturb THEN CallIds ELSE {0}

\* a raising call is charged to the budget; failAt is 0 when nothing raised
Charged(failed, failAt) ==
    /\ failed => external + fails < MaxDisturb
    /\ ~failed => failAt = 0
    /\ fails' = IF failed THEN fails + 1 ELSE fails

\* (mutant) a handler without its except clause: the exception leaves run()
Uncaught(failed, nextpc) == IF failed THEN "crashed" ELSE nextpc

\* every handler called by the loop body ends its try block with an
\* "except Exception" that prints and returns (lines 73, 115, 148, 181, 273),
\* and the loop body has its own at line 298: a failed step returns normally
\* and run() goes on with the statement after the call
Caught(failed, nextpc) == nextpc

\* line 289: self.refresh_image()
RefreshImage ==
    /\ pc = "refresh"
    /\ \E pullOk \in BOOLEAN, failAt \in FailPoints :
         \E r \in {refresh_image(fleet, last_pull_time, now, registry, local,
                                 pullOk, failAt)} :
             /\ Charged(r.failed, failAt)
             /\ fleet' = r.fleet
             /\ last_pull_time' = r.last_pull_time
             /\ local' = r.local
             /\ refreshed' = [called |-> TRUE, attempted |-> r.attempted,
                              prev |-> pulled_at, failed |-> r.failed,
                              tried |-> r.tried, touched |-> r.touched]
             /\ pulled_at' = IF r.attempted THEN now ELSE pulled_at
             /\ pc' = Caught(r.failed, "lag")
    /\ UNCHANGED <<registry, auto_upgrade, broker, now, current_replicas, last_scale_time,
                   lag, desired, inspected, last, scaled_at, external>>

\* some broker call of the measurement raises: the consumer's creation, a
\* topic's partition lookup or an offset read that is reached, or the close
BrokerFailed(b) ==
    \/ ~b.connect
    \/ ~b.close
    \/ \E i \in 1 .. Len(b.topics) :
          b.topics[i].failAt \in 1 .. (Len(b.topics[i].parts) + 1)

\* line 290: lag = self.get_consumer_lag()
MeasureLag ==
    /\ pc = "lag"
    /\ \E b \in (IF broker = <<>> THEN Brokers ELSE {broker[1]}) :
         /\ lag' = get_consumer_lag(b)
         /\ pc' = Caught(BrokerFailed(b), "inspect")
    /\ UNCHANGED <<fleet, registry, local, auto_upgrade, broker, now, current_replicas,
                   last_scale_time, last_pull_time, desired, refreshed, pulled_at,
                   inspected, last, scaled_at, external, fails>>

\* line 291: self.current_replicas = self._get_current_replicas()
Inspect ==
    /\ pc = "inspect"
    /\ \E failAt \in 0 .. 1 :
         /\ Charged(failAt = 1, failAt)
         /\ current_replicas' = get_current_replicas(fleet, failAt = 1)
         /\ inspected' = IF failAt = 1 THEN "raised" ELSE "ok"
         /\ pc' = Caught(failAt = 1, "decide")
    /\ UNCHANGED <<fleet, registry, local, auto_upgrade, broker, now, last_scale_time,
                   last_pull_time, lag, desired, refreshed, pulled_at, last, scaled_at,
                   external>>

\* line 295: desired = self.calculate_desired_replicas(lag)
Decide ==
    /\ pc = "decide"
    /\ desired' = calculate_desired_replicas(lag, current_replicas)
    /\ pc' = "scale"
    /\ UNCHANGED <<fleet, registry, local, auto_upgrade, broker, now, current_replicas,
                   last_scale_time, last_pull_time, lag, refreshed, pulled_at, inspected,
                   last, scaled_at, external, fails>>

\* line 296: self.scale_service(desired)
ScaleService ==
    /\ pc = "scale"
    /\ \E failAt \in FailPoints :
         \E r \in {scale_service(fleet, current_replicas, last_scale_time, now,
                                 desired, local, failAt)} :
             /\ r.fits
             /\ Charged(r.failed, failAt)
             /\ fleet' = r.fleet
             /\ current_replicas' = r.current_replicas
             /\ last_scale_time' = r.last_scale_time
             /\ last' = r.log
             /\ scaled_at' = IF r.log.exit \in {"up", "down"} THEN now ELSE scaled_at
             /\ pc' = Caught(r.failed, "sleep")
    /\ UNCHANGED <<registry, local, auto_upgrade, broker, now, last_pull_time, lag,
                   desired, refreshed, pulled_at, inspected, external>>

\* line 301: time.sleep(CHECK_INTERVAL); the statements of a tick take no
\* time, and the run is followed for h seconds
SleepWithin(h) ==
    /\ pc = "sleep"
    /\ now + CHECK_INTERVAL <= StartTime + h
    /\ now' = now + CHECK_INTERVAL
    /\ pc' = "refresh"
    /\ lag' = 0
    /\ desired' = 0
    /\ refreshed' = NoRefresh
    /\ inspected' = "none"
    /\ last' = Idle
    /\ UNCHANGED <<fleet, registry, local, auto_upgrade, broker, current_replicas,
                   last_scale_time, last_pull_time, pulled_at, scaled_at, external, fails>>

Sleep == SleepWithin(Horizon)

(* ---- the environment ---------------------------------------------------- *)
\* The fleet is read by refresh_image, by the tick's inspection and by
\* scale_service; a change made by another actor at any other moment is the
\* same as one made right before the next of these reads.
Observing == pc \in {"refresh", "inspect", "scale"}

\* another actor starts a worker by hand: the primary, or the next replica
ExternalStart ==
    /\ external + fails < MaxDisturb
    /\ Observing
    /\ \E n \in {TARGET_SERVICE, NextIdx(ListAll(fleet))} :
         /\ n <= MaxIdx
         /\ fleet[n].status = "absent"
         /\ \E s \in {"running", "created"} :
                fleet' = [fleet EXCEPT ![n] = Container(s, local, ComposeEnv)]
    /\ external' = external + 1
    /\ UNCHANGED <<registry, local, auto_upgrade, broker, now, current_replicas,
                   last_scale_time, last_pull_time, pc, lag, desired, refreshed,
                   pulled_at, inspected, last, scaled_at, fails>>

\* a worker is stopped by hand, crashes into its restart loop, or is removed
ExternalChange ==
    /\ external + fails < MaxDisturb
    /\ Observing
    /\ \E n \in 1 .. MaxIdx, s \in {"exited", "restarting", "absent"} :
         /\ fleet[n].status = "running"
         /\ fleet' = [fleet EXCEPT ![n] = IF s = "absent" THEN Absent
                                          ELSE [fleet[n] EXCEPT !.status = s]]
    /\ external' = external + 1
    /\ UNCHANGED <<registry, local, auto_upgrade, broker, now, current_replicas,
                   last_scale_time, last_pull_time, pc, lag, desired, refreshed,
                   pulled_at, inspected, last, scaled_at, fails>>

Next ==
    \/ RefreshImage
    \/ MeasureLag
    \/ Inspect
    \/ Decide
    \/ ScaleService
    \/ Sleep
    \/ ExternalStart
    \/ ExternalChange

Spec == Init /\ [][Next]_vars

(* ---- the scaling policy as a pure function ------------------------------- *)
\* calculate_desired_replicas applied to every lag and every cached count
InitPolicy ==
    /\ fleet = FleetOf(MIN_REPLICAS, 1)
    /\ registry = 1
    /\ local = 1
    /\ auto_upgrade = TRUE
    /\ broker = <<>>
    /\ now = StartTime
    /\ current_replicas \in 0 .. MaxCurrent
    /\ last_scale_time = 0
    /\ last_pull_time = 0
    /\ pc = "decide"
    /\ lag \in 0 .. MaxLag
    /\ desired = 0
    /\ Quiet

NextPolicy == Decide

SpecPolicy == InitPolicy /\ [][NextPolicy]_vars

(* ---- the loop alone ------------------------------------------------------- *)
\* run() with no other actor on the fleet: the registry serves the image the
\* workers run (1) or a newer one (2), and AUTO_UPGRADE is set either way
InitLoop ==
    /\ \E k \in MIN_REPLICAS .. MAX_REPLICAS : fleet = FleetOf(k, 1)
    /\ registry \in {1, 2}
    /\ local = 1
    /\ auto_upgrade \in BOOLEAN
    /\ broker = <<>>
    /\ now = StartTime
    /\ current_replicas = get_current_replicas(fleet, FALSE)
    /\ last_scale_time = 0
    /\ last_pull_time = 0
    /\ pc = "refresh"
    /\ lag = 0
    /\ desired = 0
    /\ Quiet

\* one statement of the loop body
Step ==
    \/ RefreshImage
    \/ MeasureLag
    \/ Inspect
    \/ Decide
    \/ ScaleService

NextLoop ==
    \/ Step
    \/ Sleep

SpecLoop == InitLoop /\ [][NextLoop]_vars

(* ---- the loop under a steady lag, nothing failing ----------------------- *)
SteadyHorizon == 360

\* brokers that answer every call, with nothing committed yet: the lag is
\* the sum of the end offsets
SteadyBrokers ==
    {b \in Brokers : ~BrokerFailed(b) /\ b.topics[1].parts[1].committed = None}

\* fleets of 0 to MAX_REPLICAS workers; with no worker, the primary may be
\* left over as an exited container
SteadyFleets ==
    {FleetOf(k, 1) : k \in 0 .. MAX_REPLICAS}
        \cup {[FleetOf(0, 1) EXCEPT ![TARGET_SERVICE] = Container("exited", 1, ComposeEnv)]}

\* the loop is at the top of a tick, the last scale action just made or long ago
InitSteady ==
    /\ fleet \in SteadyFleets
    /\ registry \in {1, 2}
    /\ local = 1
    /\ auto_upgrade \in BOOLEAN
    /\ broker \in {<<b>> : b \in SteadyBrokers}
    /\ now = StartTime
    /\ current_replicas = get_current_replicas(fleet, FALSE)
    /\ last_scale_time \in {0, StartTime}
    /\ last_pull_time = 0
    /\ pc = "refresh"
    /\ lag = 0
    /\ desired = 0
    /\ Quiet

\* a statement of the loop body in which no runtime call raises, or the sleep
NextSteady ==
    \/ Step /\ fails' = fails
    \/ SleepWithin(SteadyHorizon)

SpecSteady == InitSteady /\ [][NextSteady]_vars

(* ---- one refresh_image call on a mixed fleet ---------------------------- *)
MaxRefresh == 3

\* environments of a worker: none, one variable, one with an empty value,
\* and one whose value holds an '='
Envs ==
    {<<>>,
     << <<"A", "=", "1">> >>,
     << <<"A", "=">>, <<"K", "=", "v">> >>,
     << <<"A", "=", "1">>, <<"B", "=", "x", "=", "y">> >>}

\* fleets of up to MaxRefresh workers, each running or exited, on image 1 or 2
RefreshFleets ==
    {[n \in Names |->
        IF n = AUTOSCALER THEN Container("running", 1, ComposeEnv)
        ELSE IF n >= 1 /\ n <= k THEN Container(st[n], im[n], env)
        ELSE Absent] :
     k \in 1 .. MaxRefresh,
     st \in [1 .. MaxRefresh -> {"running", "exited"}],
     im \in [1 .. MaxRefresh -> {1, 2}],
     env \in Envs}

\* run() arrives at line 289 with a fleet whose workers run the image the
\* registry serves now or the one it served before
InitRefresh ==
    /\ fleet \in RefreshFleets
    /\ registry = 2
    /\ local \in {1, 2}
    /\ auto_upgrade \in BOOLEAN
    /\ broker = <<>>
    /\ now = StartTime
    /\ current_replicas = get_current_replicas(fleet, FALSE)
    /\ last_scale_time = 0
    /\ last_pull_time \in {0, StartTime}
    /\ pc = "refresh"
    /\ lag = 0
    /\ desired = 0
    /\ Quiet

NextRefresh == RefreshImage

SpecRefresh == InitRefresh /\ [][NextRefresh]_vars

(* ---- get_consumer_lag as a pure function ---------------------------------- *)
\* what one partition may hold: any log-end offset, and a committed offset
\* that is missing, behind, equal to or ahead of it
PartitionOffsets ==
    {[end |-> e, committed |-> c] : e \in OffsetOf, c \in {None} \cup OffsetOf}

\* the first topic has up to two partitions, the second up to one
PartsOfFirst ==
    {<<>>} \cup {<<p>> : p \in PartitionOffsets}
           \cup {<<p, q>> : p \in PartitionOffsets, q \in PartitionOffsets}
PartsOfSecond == {<<>>} \cup {<<p>> : p \in PartitionOffsets}

\* where the measurement's broker calls may raise: nowhere, or at one call
Faults ==
    {f \in [connect : BOOLEAN, close : BOOLEAN, first : 0 .. 3, second : 0 .. 2] :
        Cardinality({x \in {"connect", "close"} : ~f[x]}
                    \cup {x \in {"first", "second"} : f[x] # 0}) <= 1}

LagInputs ==
    {[connect |-> f.connect, close |-> f.close,
      topics |-> <<[failAt |-> f.first, parts |-> p1],
                   [failAt |-> f.second, parts |-> p2]>>] :
        f \in Faults, p1 \in PartsOfFirst, p2 \in PartsOfSecond}

InitLag ==
    /\ fleet = FleetOf(MIN_REPLICAS, 1)
    /\ registry = 1
    /\ local = 1
    /\ auto_upgrade = TRUE
    /\ \E b \in LagInputs : broker = <<b>>
    /\ now = StartTime
    /\ current_replicas = get_current_replicas(fleet, FALSE)
    /\ last_scale_time = 0
    /\ last_pull_time = 0
    /\ pc = "lag"
    /\ lag = 0
    /\ desired = 0
    /\ Quiet

NextLag == MeasureLag

SpecLag == InitLag /\ [][NextLag]_vars

(* ---- scale_service as a function of its argument --------------------------- *)
\* scale_service called with any desired count, on any cached count and any
\* fleet of the primary and its first replicas, inside and outside the cooldown
InitReconcile ==
    /\ \E k \in 0 .. MaxIdx : fleet = FleetOf(k, 1)
    /\ registry = 1
    /\ local = 1
    /\ auto_upgrade = TRUE
    /\ broker = <<>>
    /\ now = StartTime
    /\ current_replicas \in 0 .. MaxCurrent
    /\ last_scale_time \in {0, StartTime}
    /\ last_pull_time = 0
    /\ pc = "scale"
    /\ lag = 0
    /\ desired \in 0 .. MaxCurrent
    /\ Quiet

NextReconcile == ScaleService

SpecReconcile == InitReconcile /\ [][NextReconcile]_vars

(* ======================== properties ===================================== *)
Abs(x) == IF x < 0 THEN -x ELSE x

\* the latest scale_service call of the tick has returned
Returned == pc = "sleep"

\* it ran its re-check and the re-check found the cached count stale
Stale == Returned /\ last.fresh # None /\ last.fresh # last.cached

Acted == Returned /\ last.exit \in {"up", "down", "error"}

Ops(kind) == {i \in 1 .. Len(last.muts) : last.muts[i].op = kind}

\* C1 - race safety of scale_service: when the re-check's count differs from
\* the cached one, the cached count is replaced by the fresh one; the call
\* issues no mutating runtime call when desired equals the fresh count; and
\* otherwise the number of containers to launch or remove is computed from the
\* fresh count (every mutating call is issued with the fresh count cached).
C1_RaceSafety ==
    Stale =>
        /\ last.desired = last.fresh =>
              last.muts = <<>> /\ current_replicas = last.fresh
        /\ last.exit \in {"recheck", "clamp", "error"} => current_replicas = last.fresh
        /\ Acted =>
              /\ last.planned = Abs(last.target - last.fresh)
              /\ \A i \in 1 .. Len(last.muts) : last.muts[i].cached = last.fresh
        /\ last.exit = "up" => Cardinality(Ops("run")) = last.target - last.fresh
        /\ last.exit = "down" => Cardinality(Ops("stop")) <= last.fresh - last.target

\* the re-check finds a stale count and the scale-up is sized from the fresh one
C1_Witness ==
    /\ Stale
    /\ last.exit = "up"
    /\ last.desired # last.fresh
    /\ Cardinality(Ops("run")) = last.target - last.fresh
    /\ Cardinality(Ops("run")) # last.target - last.cached

\* C2 - cooldown enforcement: a scale_service call made less than
\* COOLDOWN_PERIOD after the latest successful scale action issues no mutating
\* runtime call, whatever desired count it is given.
C2_Cooldown ==
    (Returned /\ scaled_at # None /\ scaled_at < now /\ now - scaled_at < COOLDOWN_PERIOD)
        => last.muts = <<>>

\* a call inside the window that asked for another count than the cached one
C2_Witness ==
    /\ Returned
    /\ scaled_at # None /\ scaled_at < now /\ now - scaled_at < COOLDOWN_PERIOD
    /\ last.exit = "cooldown"
    /\ last.desired # last.cached
    /\ last.muts = <<>>

\* C3 (as claimed) - at every mutating runtime call of scale_service the cached
\* current_replicas equals what an inspection of the fleet reports right
\* before that call.
C3_EveryMutationVerified ==
    Returned => \A i \in 1 .. Len(last.muts) : last.muts[i].cached = last.muts[i].actual

\* C3 (amended) - no mutating runtime call is issued without the re-check, and
\* at the first mutating call of a scale action the cached current_replicas is
\* the count the re-check returned, which is the count of the fleet at that
\* moment unless the re-check's runtime query raised (then it is the floor).
C3_FirstMutationVerified ==
    (Returned /\ last.muts # <<>>) =>
        /\ last.fresh # None
        /\ last.muts[1].cached = last.fresh
        /\ ~last.floor => last.muts[1].cached = last.muts[1].actual
        /\ last.floor => last.muts[1].cached = InspectionFloor

\* a scale action of two mutating calls after a re-check that found the
\* restarting and created containers counted
C3_Witness ==
    /\ Returned
    /\ Len(last.muts) >= 2
    /\ ~last.floor
    /\ last.muts[1].cached = last.muts[1].actual
    /\ last.muts[2].cached # last.muts[2].actual

\* C4 - primary preservation: a scale-down from N > 1 replicas never stops or
\* removes the primary while another replica of the service exists (running,
\* restarting or created).
C4_PrimaryPreserved ==
    (Returned /\ last.fresh # None /\ last.fresh > 1) =>
        \A i \in 1 .. Len(last.muts) :
            (last.muts[i].op \in {"stop", "remove"} /\ is_main(last.muts[i].name))
                => last.muts[i].others = 0

\* C5 - idempotence: scale_service(desired) with desired equal to the cached
\* current_replicas issues no mutating runtime call and leaves
\* current_replicas and last_scale_time as they were on entry.
C5_Idempotent ==
    (Returned /\ last.desired = last.cached) =>
        /\ last.muts = <<>>
        /\ current_replicas = last.cached
        /\ last_scale_time = last.lst

\* the call returned at once although the fleet no longer holds the cached
\* count and no cooldown is running
C5_Witness ==
    /\ Returned
    /\ last.exit = "same"
    /\ last.desired = current_replicas
    /\ CountActive(fleet) # current_replicas
    /\ ~InCooldown(now, last_scale_time)

\* the policy has been applied to lag and current_replicas
Decided == pc = "scale"

\* C6 - policy range: with MIN_REPLICAS <= current <= MAX_REPLICAS the policy
\* returns a value within [MIN_REPLICAS, MAX_REPLICAS], for every lag.
C6_Range ==
    (Decided /\ MIN_REPLICAS <= current_replicas /\ current_replicas <= MAX_REPLICAS)
        => (MIN_REPLICAS <= desired /\ desired <= MAX_REPLICAS)

\* the double step is cut at MAX_REPLICAS
C6_Witness ==
    /\ Decided
    /\ lag > SteepLag
    /\ current_replicas = MAX_REPLICAS - 1
    /\ desired = MAX_REPLICAS

\* C7 - hysteresis band: for SCALE_DOWN_THRESHOLD <= lag <= SCALE_UP_THRESHOLD
\* the policy returns current_replicas unchanged.
C7_Hysteresis ==
    (Decided /\ SCALE_DOWN_THRESHOLD <= lag /\ lag <= SCALE_UP_THRESHOLD)
        => desired = current_replicas

\* the upper edge of the band, with room to move both ways
C7_Witness ==
    /\ Decided
    /\ lag = SCALE_UP_THRESHOLD
    /\ MIN_REPLICAS < current_replicas /\ current_replicas < MAX_REPLICAS
    /\ desired = current_replicas

\* C8 (as claimed) - monotonicity: for any lag1 <= lag2 the policy's value at
\* lag1 is at most its value at lag2, whatever current_replicas is.
C8_Monotone ==
    Decided =>
        \A l2 \in 0 .. MaxLag :
            lag <= l2 => desired <= calculate_desired_replicas(l2, current_replicas)

\* C8 (amended) - monotonicity for current_replicas <= MAX_REPLICAS: for any
\* lag1 <= lag2 the policy's value at lag1 is at most its value at lag2.
C8_MonotoneUpToMax ==
    (Decided /\ current_replicas <= MAX_REPLICAS) =>
        \A l2 \in 0 .. MaxLag :
            lag <= l2 => desired <= calculate_desired_replicas(l2, current_replicas)

\* a low lag that steps down while a higher lag steps up
C8_Witness ==
    /\ Decided
    /\ current_replicas <= MAX_REPLICAS
    /\ desired < current_replicas
    /\ \E l2 \in 0 .. MaxLag :
          lag <= l2 /\ calculate_desired_replicas(l2, current_replicas) > current_replicas

C10_ScaleDownStep ==
    (Decided /\ lag < SCALE_DOWN_THRESHOLD /\ current_replicas > MIN_REPLICAS) =>
        /\ desired = Max(MIN_REPLICAS, current_replicas - 1)
        /\ current_replicas - desired <= 1

\* lag = 1 with three replicas: one replica less
C10_Witness ==
    /\ Decided
    /\ lag = 1
    /\ current_replicas = 3
    /\ desired = 2

\* the statement run() executes after each statement of its loop body
LoopOrder ==
    [refresh |-> "lag", lag |-> "inspect", inspect |-> "decide", decide |-> "scale",
     scale |-> "sleep", sleep |-> "refresh"]

\* the statement at pc can be executed: the handlers have no blocking
\* condition (the model's only one is a replica name beyond its name space)
CanRun ==
    /\ pc \in DOMAIN LoopOrder
    /\ pc = "scale" =>
          scale_service(fleet, current_replicas, last_scale_time, now, desired,
                        local, 0).fits

\* C11 - the control loop has no terminal state: in every reachable state the
\* next statement of the loop body can run, and every step of the loop, also
\* one in which a runtime or broker call raised, goes on to the next statement:
\* a failing tick reaches time.sleep like any other, and the sleep is followed
\* by the next tick's first statement.
C11_LoopNeverStops ==
    /\ []CanRun
    /\ [][pc' = LoopOrder[pc]]_vars

\* a tick has started after a runtime call raised in an earlier one
C11_Witness ==
    /\ pc = "refresh"
    /\ now > StartTime
    /\ fails > 0

\* a launch, a stop or a remove of the latest scale action raised
BatchFailed == Acted /\ \E i \in 1 .. Len(last.muts) : ~last.muts[i].ok

\* C12 (as claimed) - per-replica failure isolation: when one launch, or one
\* stop/remove, of a scale batch fails, every other planned launch or removal
\* of the batch is still attempted.
C12_BatchContinues ==
    BatchFailed =>
        /\ last.target > last.fresh => Cardinality(Ops("run")) = last.planned
        /\ last.target < last.fresh =>
              \A c \in last.victims :
                  \E i \in Ops("stop") : last.muts[i].name = c

\* C13 (as claimed) - honest cached state: after any scale action, also one
\* cut short by a failure or one that skipped the primary, current_replicas
\* equals the number of replicas the fleet actually holds, not the desired one.
C13_HonestCache ==
    Acted => current_replicas = CountActive(fleet)

\* the step changes the fleet as scale_service may: the cooldown has elapsed
\* and the call has re-verified the count
ScaleMutates ==
    /\ pc = "scale"
    /\ now - last_scale_time >= COOLDOWN_PERIOD
    /\ last'.fresh # None

\* C14 (as claimed) - fleet mutation exclusivity: the fleet is changed only by
\* scale_service, after its cooldown and re-verification checks; no other
\* statement of a tick stops, removes or launches a container.
C14_OnlyScaleMutates ==
    [][fleet' # fleet => ScaleMutates]_vars

\* C14 (amended) - the fleet is changed by two statements of a tick only: by
\* scale_service, after its cooldown and re-verification checks, and by
\* refresh_image, when AUTO_UPGRADE is set and the pull interval has elapsed;
\* the lag measurement, the inspection and the policy never change it.
C14_ScaleOrRefreshMutates ==
    [][fleet' # fleet =>
          \/ ScaleMutates
          \/ /\ pc = "refresh"
             /\ auto_upgrade
             /\ now - last_pull_time >= PULL_INTERVAL]_vars

\* refresh_image has stopped a worker that ran an outdated image
C14_Witness ==
    /\ pc = "lag"
    /\ refreshed.touched # {}
    /\ registry # 1

\* C15 (as claimed) - image refresh gating: any two pull attempts of
\* refresh_image are at least the pull interval apart, whatever the outcome of
\* the earlier one, and with AUTO_UPGRADE unset refresh_image attempts no
\* pull and touches no container.
C15_PullGated ==
    refreshed.called =>
        /\ (refreshed.attempted /\ refreshed.prev # None) =>
              pulled_at - refreshed.prev >= PULL_INTERVAL
        /\ ~auto_upgrade => (~refreshed.attempted /\ refreshed.touched = {})

\* the measurement of the given broker has been made
Measured == broker # <<>> /\ pc # "lag"

\* the lag of one partition, case by case
LagOf(p) ==
    IF p.committed = None THEN p.end
    ELSE IF p.end > p.committed THEN p.end - p.committed
    ELSE 0

\* the partitions of topic t whose offsets are read before a call on t raises
ReadBeforeRaise(t) ==
    {k \in 1 .. Len(t.parts) : t.failAt = 0 \/ k < t.failAt - 1}

\* the lags of the partitions K of topic t, added up
RECURSIVE Total(_, _)
Total(t, K) ==
    IF K = {} THEN 0
    ELSE LET k == CHOOSE x \in K : TRUE
         IN  LagOf(t.parts[k]) + Total(t, K \ {k})

\* C16 (as claimed) - fail-safe lag: get_consumer_lag returns 0 whenever any
\* broker call fails at any point of the measurement, and never raises.
C16_ZeroOnAnyFailure ==
    Measured =>
        /\ pc = "inspect"
        /\ BrokerFailed(broker[1]) => lag = 0

\* C16 (amended) - get_consumer_lag never raises; it returns 0 when the
\* consumer cannot be created or closed; a raise of a topic's partition lookup
\* or of an offset read skips the rest of that topic only, and the lag added
\* before (the other topic's, and this topic's partitions read before the
\* raise) is still returned.
C16_FailSafe ==
    Measured =>
        /\ pc = "inspect"
        /\ (~broker[1].connect \/ ~broker[1].close) => lag = 0
        /\ (broker[1].connect /\ broker[1].close) =>
              lag = Total(broker[1].topics[1], ReadBeforeRaise(broker[1].topics[1]))
                  + Total(broker[1].topics[2], ReadBeforeRaise(broker[1].topics[2]))

\* the offset read of the first topic's second partition raised and the lag
\* of its first partition is returned
C16_Witness ==
    /\ Measured
    /\ Len(broker[1].topics[1].parts) = 2
    /\ broker[1].topics[1].failAt = 3
    /\ lag > 0

\* C17 - lag aggregation: when no broker call fails, get_consumer_lag returns
\* the sum over all partitions of all monitored topics of max(0, end -
\* committed), a missing committed offset counting as 0 and a topic without
\* partitions adding nothing; the result is never negative.
C17_Aggregation ==
    (Measured /\ ~BrokerFailed(broker[1])) =>
        /\ lag = Total(broker[1].topics[1], 1 .. Len(broker[1].topics[1].parts))
               + Total(broker[1].topics[2], 1 .. Len(broker[1].topics[2].parts))
        /\ lag >= 0

\* a partition whose committed offset is ahead of its end, next to one without
\* a committed offset, and a topic without partitions
C17_Witness ==
    /\ Measured
    /\ ~BrokerFailed(broker[1])
    /\ Len(broker[1].topics[1].parts) = 2
    /\ broker[1].topics[1].parts[1].committed > broker[1].topics[1].parts[1].end
    /\ broker[1].topics[1].parts[2].committed = None
    /\ broker[1].topics[2].parts = <<>>
    /\ lag = broker[1].topics[1].parts[2].end
    /\ lag > 0

\* the target-service containers an inspection counts: the names other than
\* the autoscaler's that are running, restarting or created
Workers(fl) ==
    {n \in Names \ {AUTOSCALER} : fl[n].status \in {"running", "restarting", "created"}}

\* the mutating calls of the latest scale action that succeeded
Done(kind) == {i \in Ops(kind) : last.muts[i].ok}

\* C18 - inspection floor: an inspection whose runtime query raises returns 1,
\* at the tick's start (line 291) as in scale_service's re-check (line 194);
\* one that succeeds returns the number of target-service containers that are
\* running, restarting or created, the autoscaler's own container left out
\* (for the re-check: the fleet as it was before the launches and stops that
\* followed it).
C18_InspectionFloor ==
    /\ (pc = "decide" /\ inspected = "raised") => current_replicas = 1
    /\ (pc = "decide" /\ inspected = "ok") =>
          current_replicas = Cardinality(Workers(fleet))
    /\ (Returned /\ last.fresh # None /\ last.floor) => last.fresh = 1
    /\ (Returned /\ last.fresh # None /\ ~last.floor) =>
          last.fresh = Cardinality(Workers(fleet)) - Cardinality(Done("run"))
                                                   + Cardinality(Done("stop"))

\* the re-check's query raised on a fleet of several workers
C18_Witness ==
    /\ Returned
    /\ last.floor
    /\ last.fresh = 1
    /\ Cardinality(Workers(fleet)) > 2

\* C19 - cooldown timestamp discipline: scale_service sets last_scale_time
\* only at the end of a scale action that succeeded, together with
\* current_replicas; a call that returns early (same count, cooldown, after
\* the re-check or the clamp) or whose action raises leaves it as it was.
C19_TimestampWithCount ==
    Returned =>
        /\ last.exit \in {"up", "down"} =>
              (last_scale_time = now /\ current_replicas = last.target)
        /\ last.exit \notin {"up", "down"} => last_scale_time = last.lst

\* a scale action raised after a launch or a stop and the timestamp is the old one
C19_Witness ==
    /\ Returned
    /\ last.exit = "error"
    /\ Done("run") \cup Done("stop") # {}
    /\ last_scale_time = last.lst
    /\ last_scale_time < now

\* C20 - second clamp: whatever desired count scale_service is given and
\* whatever the re-check reports, a scale action targets a count within
\* [MIN_REPLICAS, MAX_REPLICAS]; after a successful one current_replicas is
\* within that range; and when the clamped count equals the re-check's count
\* no mutating runtime call is issued.
C20_SecondClamp ==
    Returned =>
        /\ Acted => last.target \in MIN_REPLICAS .. MAX_REPLICAS
        /\ last.exit \in {"up", "down"} =>
              current_replicas \in MIN_REPLICAS .. MAX_REPLICAS
        /\ (last.fresh # None
              /\ Max(MIN_REPLICAS, Min(MAX_REPLICAS, last.desired)) = last.fresh) =>
              last.muts = <<>>

\* a desired count above the maximum is launched up to the maximum only
C20_Witness ==
    /\ Returned
    /\ last.desired > MAX_REPLICAS
    /\ last.exit = "up"
    /\ last.target = MAX_REPLICAS
    /\ current_replicas = MAX_REPLICAS

\* C21 - scale-up naming: every replica scale_service launches is named
\* TARGET_SERVICE_k with k >= 2 the lowest suffix that no container in any
\* state holds at the moment of the launch: a launch never takes the name of
\* an existing container nor the primary's, and the launches of one batch
\* take different names.
C21_Naming ==
    Returned =>
        /\ \A i \in Ops("run") :
              /\ last.muts[i].name >= 2
              /\ last.muts[i].name \notin last.muts[i].taken
              /\ \A k \in 2 .. (last.muts[i].name - 1) : k \in last.muts[i].taken
        /\ \A i \in Ops("run"), j \in Ops("run") :
              i # j => last.muts[i].name # last.muts[j].name

\* two replicas launched in one batch, the first into a gap below a suffix in use
C21_Witness ==
    /\ Returned
    /\ Cardinality(Done("run")) = 2
    /\ \E i \in Done("run") :
          \E n \in last.muts[i].taken : n > last.muts[i].name

(* ---- image refresh ------------------------------------------------------ *)
\* the running workers that do not run image img
Outdated(fl, img) ==
    {n \in Names : RefreshCandidate(n) /\ fl[n].status = "running" /\ fl[n].image # img}

\* set of the elements of a sequence
Range(sq) == {sq[i] : i \in 1 .. Len(sq)}

\* refresh_image returns from a run that resolved the image without a raise
CleanRefresh == pc = "refresh" /\ refreshed'.attempted /\ ~refreshed'.failed

C23_RecreateIsolation ==
    [][(pc = "refresh" /\ refreshed'.tried # <<>>) =>
          /\ Range(refreshed'.tried) = Outdated(fleet, local')
          /\ Len(refreshed'.tried) = Cardinality(Outdated(fleet, local'))]_vars

\* a recreate failed and a later one of the same refresh succeeded
C23_Witness ==
    /\ pc = "lag"
    /\ refreshed.failed
    /\ \E i \in 1 .. Len(refreshed.tried), j \in 1 .. Len(refreshed.tried) :
          /\ i < j
          /\ ~(fleet[refreshed.tried[i]].status = "running"
               /\ fleet[refreshed.tried[i]].image = local)
          /\ fleet[refreshed.tried[j]].status = "running"
          /\ fleet[refreshed.tried[j]].image = local

\* C28 - image refresh preserves the replica count: when refresh_image
\* returns, every worker it stopped runs again under its name and the fleet
\* holds as many workers as before, also when a runtime call raised.
C28_RefreshKeepsCount ==
    [][pc = "refresh" =>
          /\ \A n \in refreshed'.touched : fleet'[n].status = "running"
          /\ Cardinality(Workers(fleet')) = Cardinality(Workers(fleet))]_vars

(* ---- fleet size --------------------------------------------------------- *)
\* C24 - upper fleet bound: without another actor, the number of counted
\* workers never exceeds MAX_REPLICAS, also when an inspection raised and
\* returned its floor of 1.
C24_UpperBound == Cardinality(Workers(fleet)) <= MAX_REPLICAS

\* C25 - scale direction follows lag: a scale_service call of a tick whose
\* measured lag exceeds SCALE_UP_THRESHOLD, made on a fleet of at most
\* MAX_REPLICAS workers, stops and removes no container.
C25_NoScaleDownUnderLag ==
    [][(pc = "scale" /\ lag > SCALE_UP_THRESHOLD
            /\ Cardinality(Workers(fleet)) <= MAX_REPLICAS) =>
          \A i \in 1 .. Len(last'.muts) : last'.muts[i].op \notin {"stop", "remove"}]_vars

(* ---- convergence -------------------------------------------------------- *)
\* the lag every tick of the run measures
SteadyLag == get_consumer_lag(broker[1])

\* one scale-up per cooldown, a replica at a time, fills the fleet from empty
ConvergeTime == MAX_REPLICAS * COOLDOWN_PERIOD

\* C26 - convergence under sustained backlog: when every tick measures a lag
\* above SCALE_UP_THRESHOLD and nothing fails or interferes, the fleet has
\* reached MAX_REPLICAS workers once MAX_REPLICAS cooldowns have passed and
\* holds that many at the end of every later tick, and two scale actions are
\* at least COOLDOWN_PERIOD apart.
C26_Converges ==
    /\ []((Returned /\ SteadyLag > SCALE_UP_THRESHOLD /\ now >= StartTime + ConvergeTime)
            => Cardinality(Workers(fleet)) = MAX_REPLICAS)
    /\ [][(SteadyLag > SCALE_UP_THRESHOLD /\ scaled_at # None /\ scaled_at' # scaled_at)
            => scaled_at' - scaled_at >= COOLDOWN_PERIOD]_vars

\* under a backlog the fleet was filled by a fourth scale action or a later
\* one, and is still full a cooldown after it
C26_Witness ==
    /\ Returned
    /\ SteadyLag > SCALE_UP_THRESHOLD
    /\ Cardinality(Workers(fleet)) = MAX_REPLICAS
    /\ scaled_at # None
    /\ scaled_at >= StartTime + 3 * COOLDOWN_PERIOD
    /\ now >= scaled_at + COOLDOWN_PERIOD

\* C27 - recovery to minimum: from a fleet of fewer than MIN_REPLICAS
\* workers, with no runtime call failing, the loop has brought the fleet to
\* at least MIN_REPLICAS workers by the end of the run, whatever the lag.
C27_Recovers ==
    (Returned /\ now = StartTime + SteadyHorizon) => Cardinality(Workers(fleet)) >= MIN_REPLICAS
====
